---- MODULE Spec2Model ----
(***************************************************************************)
(* ProxyAuthService (src/vs/platform/native/electron-main/auth.ts).        *)
(*                                                                         *)
(* The service runs on the single-threaded JavaScript event loop.  A step  *)
(* of the model is one task: a login event or lookupAuthorization request  *)
(* arriving, the reply of the credentials dialog, or the completion of an  *)
(* encrypt/decrypt call, together with the promise continuations it        *)
(* queues, which run in the order they were queued before the next task    *)
(* starts (Drain).  Each request arrives in a task of its own.             *)
(* The record of an invocation that has returned, and of a promise that    *)
(* has settled, is kept until the next task starts.                        *)
(***************************************************************************)
EXTENDS Integers, Sequences, FiniteSets, TLC

\* ---------------------------------------------------------------- bounds
\* onLogin invocations that are in progress at the same time.
MaxCalls == 2
\* Distinct username/password pairs the user types into the dialog.
MaxCredentials == 1

CallIds == 1..MaxCalls

\* ---------------------------------------------------------------- values
\* JavaScript `undefined` as a value of type Credentials | undefined.
Undefined == [undefined |-> TRUE]
\* A key that a Map / the storage service does not hold.
NoEntry == [absent |-> TRUE]
\* An omitted callback argument.
UndefinedArg == <<"undefined", 0>>

Hosts == {"proxy.a", "proxy.b"}

\* AuthInfo of vs/platform/request/common/request with the attempt that
\* registerListeners derives from firstAuthAttempt.
AuthInfos ==
    [scheme : {"basic"}, host : Hosts, port : {8080},
     isProxy : BOOLEAN, attempt : {1, 2}]

\* The challenges the checks enumerate: onLogin does not read a field of a
\* challenge that is not for a proxy, one such challenge stands for all.
Challenges ==
    { a \in AuthInfos : ~a.isProxy => (a.host = "proxy.a" /\ a.attempt = 1) }

\* What the user can type into the dialog.
Credentials ==
    { [username |-> <<"user", i>>, password |-> <<"password", i>>] : i \in 1..MaxCredentials }

\* hash({ scheme, host, port }): a key determined by exactly these fields.
authInfoHash(authInfo) == <<authInfo.scheme, authInfo.host, authInfo.port>>

Hashes == { authInfoHash(a) : a \in AuthInfos }

\* JSON.stringify(credentials) / JSON.parse(text)
StringifyUsername(credentials) ==
    <<"username", credentials.username, "password", credentials.username>>
Stringify(credentials) == <<"username", credentials.username, "password", credentials.password>>
Parse(text) == [username |-> text[2], password |-> text[4]]

Reverse(s) == [i \in 1..Len(s) |-> s[Len(s) + 1 - i]]

\* encryptionMainService.encrypt / decrypt: the ciphertext is not the text.
Encrypt(text) == [cipher |-> Reverse(text)]
Decrypt(encryptedValue) == Reverse(encryptedValue.cipher)

\* callback?.(credentials?.username, credentials?.password)
CallbackArgs(credentials) ==
    IF credentials = Undefined
    THEN [username |-> UndefinedArg, password |-> UndefinedArg]
    ELSE [username |-> credentials.username, password |-> credentials.password]

\* ---------------------------------------------------------------- state
VARIABLES
    calls,                    \* the onLogin invocations, by slot
    resolves,                 \* the resolveProxyCredentials promises, by creator
    pendingProxyResolves,     \* hash -> promise (its creator's slot), 0 = no entry
    currentDialog,            \* promise of the last chained dialog, 0 = undefined
    cancelledAuthInfoHashes,
    sessionCredentials,       \* hash -> Credentials | Undefined | NoEntry
    storage,                  \* applicationStorageMainService, per hash
    persisted                 \* history: credentials of the reply that wrote storage[h]

vars == <<calls, resolves, pendingProxyResolves, currentDialog,
          cancelledAuthInfoHashes, sessionCredentials, storage, persisted>>

NoAuthInfo == [scheme |-> "basic", host |-> "proxy.a", port |-> 8080,
               isProxy |-> FALSE, attempt |-> 1]

\* pc: "new" free slot, "wait" awaiting pendingProxyResolve, "done"
\* returned, "failed" the returned promise rejected.
NewCall ==
    [pc |-> "new", authInfo |-> NoAuthInfo,
     creator |-> FALSE, promise |-> 0, result |-> Undefined,
     cbCalls |-> 0, cbArgs |-> CallbackArgs(Undefined),
     \* history, read by the properties only
     seen |-> 0, answer |-> Undefined, overlaps |-> {},
     sessionAtArrival |-> NoEntry, pendingAtArrival |-> 0,
     cancelledAtArrival |-> FALSE, persistedAtArrival |-> NoEntry,
     pendingAtReturn |-> 0]

\* pc: "none" not started, "decrypt" awaiting decrypt (line 151), "queued"
\* awaiting previousDialog (line 171), "prompt" dialog open, awaiting the
\* reply (line 211), "encrypt" awaiting encrypt (line 224), "settled".
\* waiters: the invocations awaiting the promise, in the order they began.
\* A local that is not read again is reset to its initial value.
NewResolve ==
    [pc |-> "none", encryptedValue |-> NoEntry, stored |-> Undefined,
     previousDialog |-> 0, prefill |-> Undefined, reply |-> Undefined,
     rejected |-> FALSE, value |-> Undefined, waiters |-> <<>>,
     \* history: a read of the stored value failed; what the user submitted
     \* ("none", "remember", "forget"); the update of the stored value failed
     \* the window the dialog found ("unknown", "present", "absent")
     decryptFailed |-> FALSE, submitted |-> "none", storeFailed |-> FALSE,
     window |-> "unknown"]

Init ==
    /\ calls = [c \in CallIds |-> NewCall]
    /\ resolves = [r \in CallIds |-> NewResolve]
    /\ pendingProxyResolves = [h \in Hashes |-> 0]
    /\ currentDialog = 0
    /\ cancelledAuthInfoHashes = {}
    /\ sessionCredentials = [h \in Hashes |-> NoEntry]
    /\ storage = [h \in Hashes |-> NoEntry]
    /\ persisted = [h \in Hashes |-> NoEntry]

\* ---------------------------------------------------------------- helpers
HashOf(r) == authInfoHash(calls[r].authInfo)

InFlight(c) == calls[c].pc = "wait"
Returned(c) == calls[c].pc \in {"done", "failed"}

\* Invocations and promises are objects without a name: a slot is only the
\* model's name for one.  When a task starts, the invocations in flight
\* are renamed to the lowest slots, ordered by their host and by their place
\* among the invocations awaiting their promise, and the records of the
\* invocations that returned and of the promises that settled are dropped.
Live == { c \in CallIds : InFlight(c) }
HostIndex(c) == IF calls[c].authInfo.host = "proxy.a" THEN 1 ELSE 2
Place(c) ==
    LET w == resolves[calls[c].promise].waiters
    IN CHOOSE i \in DOMAIN w : w[i] = c
Keys == [c \in CallIds |-> IF InFlight(c) THEN <<HostIndex(c), Place(c)>> ELSE <<0, 0>>]
Names ==
    CHOOSE name \in
        { [c \in 0..MaxCalls |->
              IF c = 0 \/ key[c] = <<0, 0>> THEN 0
              ELSE 1 + Cardinality({ d \in CallIds :
                      /\ key[d] # <<0, 0>>
                      /\ \/ key[d][1] < key[c][1]
                         \/ /\ key[d][1] = key[c][1]
                            /\ \/ key[d][2] < key[c][2]
                               \/ key[d][2] = key[c][2] /\ d < c })] : key \in {Keys} } : TRUE

\* What a task and its continuations work on: the fields the continuations
\* write, under the names of this task, and the continuations queued so far.
Renamed(name) ==
    [calls |-> [n \in CallIds |->
        IF \E c \in CallIds : name[c] = n
        THEN [calls[CHOOSE c \in CallIds : name[c] = n] EXCEPT
                 !.promise = name[@],
                 !.overlaps = { name[d] : d \in @ } \ {0}]
        ELSE NewCall],
     resolves |-> [n \in CallIds |->
        IF \E c \in CallIds : name[c] = n /\ resolves[c].pc \notin {"none", "settled"}
        THEN [resolves[CHOOSE c \in CallIds : name[c] = n] EXCEPT
                 !.previousDialog = name[@],
                 !.waiters = [i \in DOMAIN @ |-> name[@[i]]]]
        ELSE NewResolve],
     pendingProxyResolves |-> [h \in Hashes |-> name[pendingProxyResolves[h]]],
     currentDialog |-> name[currentDialog],
     microtasks |-> <<>>,
     name |-> name]
Running == CHOOSE run \in { Renamed(name) : name \in {Names} } : TRUE

Tasks(kind, ids) == [i \in 1..Len(ids) |-> [k |-> kind, id |-> ids[i]]]

\* Continuations of the invocations awaiting promise r: the creator first,
\* then the joiners as they arrived.
Resumes(m, r) == Tasks("resume", m.resolves[r].waiters)

\* The dialog chained behind r (its `await previousDialog`, line 171).
Successor(m, r) ==
    LET S == { q \in CallIds :
                 m.resolves[q].pc = "queued" /\ m.resolves[q].previousDialog = r }
    IN IF S = {} THEN <<>> ELSE <<[k |-> "show", id |-> CHOOSE q \in S : TRUE]>>

\* line 70: if (!authInfo.isProxy) return
IsHandledAlways(authInfo) == TRUE
IsHandled(authInfo) == authInfo.isProxy

\* lines 85-86: an entry of pendingProxyResolves is joined
JoinsPendingNever(h) == FALSE
JoinsPending(h) == pendingProxyResolves[h] # 0

\* line 89: pendingProxyResolves.set(authInfoHash, pendingProxyResolve)
PendingEntryNone(promise) == promise - promise
PendingEntry(promise) == promise

\* line 138: attempt === 1 && sessionCredentials.has(authInfoHash)
UseSessionCredentialsNever(authInfo, h) == FALSE
UseSessionCredentials(authInfo, h) ==
    authInfo.attempt = 1 /\ sessionCredentials[h] # NoEntry

\* lines 151-153: the stored username and password
StoredCredentialsSwapped(encryptedValue) ==
    LET credentials == Parse(Decrypt(encryptedValue))
    IN [username |-> credentials.password, password |-> credentials.username]
StoredCredentials(encryptedValue) ==
    LET credentials == Parse(Decrypt(encryptedValue))
    IN [username |-> credentials.username, password |-> credentials.password]

\* lines 145-157: the stored credentials; none when the read threw
StoredDespiteError(ok, encryptedValue) == StoredCredentials(encryptedValue)
StoredUnlessError(ok, encryptedValue) ==
    IF ok THEN StoredCredentials(encryptedValue) ELSE Undefined

\* line 169: const previousDialog = this.currentDialog
DialogPredecessorNone(m) == m.currentDialog - m.currentDialog
DialogPredecessor(m) == m.currentDialog

\* line 182: cancelledAuthInfoHashes.has(authInfoHash)
SuppressDialogNever(cancelled, h) == FALSE
SuppressDialog(cancelled, h) == h \in cancelled

\* line 192: if (!window)
HasNoWindowNever(hasWindow) == FALSE
HasNoWindow(hasWindow) == ~hasWindow

\* lines 222-239: what the reply handler resolves with after the stored
\* value was updated (ok) or the update threw
DialogReplyUnlessError(ok, credentials) == IF ok THEN credentials ELSE Undefined
DialogReply(ok, credentials) == credentials

\* lines 201-205: session username/password ?? stored username/password
PrefillFromAnyProxy(session, h, stored) ==
    IF \E g \in Hashes : session[g] \in Credentials
    THEN session[CHOOSE g \in Hashes : session[g] \in Credentials] ELSE stored
Prefill(session, h, stored) ==
    IF session[h] \in Credentials THEN session[h] ELSE stored

\* line 171: await previousDialog waits while the previous dialog has not
\* returned
AwaitsPreviousNever(previousDialog) == FALSE
AwaitsPrevious(previousDialog) == previousDialog # 0

\* lines 169-178 up to the first await: chain a dialog for r behind the
\* current one.
EnqueueDialog(m, r) ==
    LET previousDialog == DialogPredecessor(m)
    IN [m EXCEPT !.currentDialog = r,
                 !.resolves[r].pc = "queued",
                 !.resolves[r].previousDialog = previousDialog,
                 !.microtasks = IF AwaitsPrevious(previousDialog)
                                THEN @ ELSE Append(@, [k |-> "show", id |-> r])]

\* lines 117-129: promise r settles, the invocations awaiting it continue.
Settle(m, r, value) ==
    [m EXCEPT !.resolves[r] = [NewResolve EXCEPT
                  !.pc = "settled", !.value = value,
                  !.rejected = m.resolves[r].rejected,
                  !.decryptFailed = m.resolves[r].decryptFailed,
                  !.submitted = m.resolves[r].submitted,
                  !.storeFailed = m.resolves[r].storeFailed,
                  !.window = m.resolves[r].window],
              !.microtasks = @ \o Resumes(m, r)]

\* lines 173-175: the dialog that returns resets currentDialog if it is
\* still the last of the chain
DialogKept(last, r) == last
DialogAfterReturn(last, r) == IF last = r THEN 0 ELSE last

\* lines 173-178: the dialog of r returned value; the dialog chained behind
\* it continues, and promise r settles.
DialogDone(m, r, value) ==
    Settle([m EXCEPT !.currentDialog = DialogAfterReturn(@, r),
                     !.microtasks = @ \o Successor(m, r)], r, value)

\* lines 171-208: the previous dialog settled, showProxyCredentialsDialog
\* runs up to its await.  hasWindow: getFocusedWindow() || getLastActiveWindow();
\* cancelled, session: the fields as the task left them.
ShowDialog(m, r, hasWindow, cancelled, session) ==
    LET h == authInfoHash(m.calls[r].authInfo)
    IN IF SuppressDialog(cancelled, h) THEN
          DialogDone(m, r, Undefined)
       ELSE IF HasNoWindow(hasWindow) THEN
          DialogDone([m EXCEPT !.resolves[r].window = "absent"], r, Undefined)
       ELSE
          [m EXCEPT !.resolves[r].pc = "prompt",
                    !.resolves[r].window = IF hasWindow THEN "present" ELSE "absent",
                    !.resolves[r].prefill = Prefill(session, h, m.resolves[r].stored),
                    !.resolves[r].stored = Undefined,
                    !.resolves[r].previousDialog = 0,
                    !.calls = [c \in CallIds |->
                        IF m.calls[c].pc = "wait" /\ authInfoHash(m.calls[c].authInfo) = h
                        THEN [m.calls[c] EXCEPT !.seen = @ + 1] ELSE m.calls[c]]]

\* lines 91-95: the creator's finally deletes the entry of the hash
EntryKept(entry, creator) == entry
EntryAfterReturn(entry, creator) == IF creator THEN 0 ELSE entry

\* lines 92-110: pendingProxyResolve settled, onLogin continues.
\* pendingAtReturn (history): the entry of the hash as the invocation
\* receives the result.
Resume(m, c) ==
    LET r == m.calls[c].promise
        h == authInfoHash(m.calls[c].authInfo)
        credentials == m.resolves[r].value
        entry == EntryAfterReturn(m.pendingProxyResolves[h], m.calls[c].creator)
    IN [m EXCEPT
          !.pendingProxyResolves[h] = entry,
          !.calls[c] =
              IF m.resolves[r].rejected
              THEN [@ EXCEPT !.pc = "failed", !.pendingAtReturn = entry]
              ELSE [@ EXCEPT !.pc = "done", !.result = credentials,
                             !.cbCalls = @ + 1,
                             !.cbArgs = CallbackArgs(credentials),
                             !.pendingAtReturn = entry]]

\* The queued continuations run, in order, until none is left.
RECURSIVE Drain(_, _, _, _)
Drain(queued, hasWindow, cancelled, session) ==
    CHOOSE end \in
        { IF m.microtasks = <<>> THEN m
          ELSE LET t == Head(m.microtasks)
                   rest == [m EXCEPT !.microtasks = Tail(@)]
               IN Drain(IF t.k = "show"
                        THEN ShowDialog(rest, t.id, hasWindow, cancelled, session)
                        ELSE Resume(rest, t.id),
                        hasWindow, cancelled, session) : m \in {queued} } : TRUE

\* getFocusedWindow() || getLastActiveWindow() is read only by a dialog that
\* leaves its `await previousDialog` in this task.
NoDialogAfter(m, r) == Successor(m, r) = <<>>
NoDialogYet(m) == DialogPredecessor(m) # 0

\* The chain of dialogs as the task finds it.
Chain == [resolves |-> resolves, currentDialog |-> currentDialog]

\* The task ends: the fields are as its continuations left them.
Finish(m, hasWindow) ==
    \E end \in {Drain(m, hasWindow, cancelledAuthInfoHashes', sessionCredentials')} :
       /\ calls' = end.calls
       /\ resolves' = end.resolves
       /\ pendingProxyResolves' = end.pendingProxyResolves
       /\ currentDialog' = end.currentDialog

\* ---------------------------------------------------------------- actions
\* lines 61-110: a login event arrives with its callback.
\* (lookupAuthorization is the same code without event and callback,
\* line 66: there line 109 does nothing.)  readOk = FALSE: the read of the
\* stored value throws (line 149), the error is logged.
Login(authInfo, readOk, hasWindow) ==
    /\ Cardinality(Live) < MaxCalls
    /\ UNCHANGED <<cancelledAuthInfoHashes, sessionCredentials, storage, persisted>>
    \* readOk and hasWindow matter only where the storage and the windows are read
    /\ LET h == authInfoHash(authInfo)
       IN IF ~IsHandled(authInfo) \/ JoinsPending(h) \/ UseSessionCredentials(authInfo, h)
          THEN hasWindow /\ readOk
          ELSE IF storage[h] # NoEntry /\ readOk THEN hasWindow
          ELSE (storage[h] = NoEntry => readOk) /\ (NoDialogYet(Chain) => hasWindow)
    /\ \E run \in {Running} : LET
           id == Cardinality(Live) + 1
           h == authInfoHash(authInfo)
           arrived == [NewCall EXCEPT
               !.authInfo = authInfo,
               !.overlaps = { run.name[c] : c \in { d \in Live : HashOf(d) = h } },
               !.sessionAtArrival = sessionCredentials[h],
               !.pendingAtArrival = run.pendingProxyResolves[h],
               !.cancelledAtArrival = (h \in cancelledAuthInfoHashes),
               !.persistedAtArrival = persisted[h]]
           created == [run EXCEPT
               !.calls[id] = [arrived EXCEPT !.pc = "wait", !.promise = id, !.creator = TRUE],
               !.pendingProxyResolves[h] = PendingEntry(id),
               !.resolves[id] = [NewResolve EXCEPT !.waiters = <<id>>]]
       IN IF ~IsHandled(authInfo) THEN
             Finish([run EXCEPT !.calls[id] = [arrived EXCEPT !.pc = "done"]], hasWindow)
          ELSE IF JoinsPending(h) THEN
             Finish([run EXCEPT
                    !.calls[id] = [arrived EXCEPT !.pc = "wait",
                                                  !.promise = run.pendingProxyResolves[h]],
                    !.resolves[run.pendingProxyResolves[h]].waiters = Append(@, id)], hasWindow)
          ELSE IF UseSessionCredentials(authInfo, h) THEN
             \* line 141: destructuring `undefined` throws a TypeError
             Finish(Settle([created EXCEPT
                    !.resolves[id].rejected = (sessionCredentials[h] = Undefined)],
                    id, sessionCredentials[h]), hasWindow)
          ELSE IF storage[h] # NoEntry /\ readOk THEN
             Finish([created EXCEPT !.resolves[id].pc = "decrypt",
                                       !.resolves[id].encryptedValue = storage[h]], hasWindow)
          ELSE
             Finish(EnqueueDialog([created EXCEPT !.resolves[id].decryptFailed = ~readOk],
                                     id), hasWindow)

\* lines 151-167: decrypt of the stored value completes, or it (or
\* JSON.parse) throws and the error is logged.
DecryptDone(r, ok, hasWindow) ==
    /\ resolves[r].pc = "decrypt"
    /\ UNCHANGED <<cancelledAuthInfoHashes, storage, persisted>>
    /\ ( \/ /\ calls[r].authInfo.attempt = 1
            /\ StoredUnlessError(ok, resolves[r].encryptedValue) # Undefined
         \/ NoDialogYet(Chain) ) => hasWindow
    /\ \E run \in {Running} : LET
           h == HashOf(r)
           stored == StoredUnlessError(ok, resolves[r].encryptedValue)
           m == [run EXCEPT !.resolves[run.name[r]].stored = stored,
                                !.resolves[run.name[r]].decryptFailed = ~ok,
                                !.resolves[run.name[r]].encryptedValue = NoEntry]
       IN IF calls[r].authInfo.attempt = 1 /\ stored # Undefined THEN
             /\ sessionCredentials' = [sessionCredentials EXCEPT ![h] = stored]
             /\ Finish(Settle(m, run.name[r], stored), hasWindow)
          ELSE
             /\ UNCHANGED sessionCredentials
             /\ Finish(EnqueueDialog(m, run.name[r]), hasWindow)

\* The invocations that saw the prompt of h learn its reply (history).
Answered(m, h, reply) ==
    [m EXCEPT !.calls = [c \in CallIds |->
        IF m.calls[c].pc = "wait" /\ authInfoHash(m.calls[c].authInfo) = h
              /\ m.calls[c].seen > 0
        THEN [m.calls[c] EXCEPT !.answer = reply] ELSE m.calls[c]]]

\* lines 212-239, 256-258: the window replies with credentials.  With
\* remember the handler awaits encrypt; without, it removes the stored
\* value (removed = FALSE: remove throws, the error is logged).
ReplyCredentials(r, reply, remember, removed, hasWindow) ==
    /\ resolves[r].pc = "prompt"
    /\ reply \in Credentials
    /\ remember => (removed /\ hasWindow)
    /\ NoDialogAfter(Chain, r) => hasWindow
    /\ UNCHANGED cancelledAuthInfoHashes
    /\ \E run \in {Running} : LET
           h == HashOf(r)
           m == Answered(run, h, reply)
       IN /\ IF remember THEN
                /\ UNCHANGED <<sessionCredentials, storage, persisted>>
                /\ Finish([m EXCEPT !.resolves[run.name[r]].pc = "encrypt",
                                    !.resolves[run.name[r]].reply = reply,
                                    !.resolves[run.name[r]].submitted = "remember"], hasWindow)
             ELSE
                /\ storage' = IF removed THEN [storage EXCEPT ![h] = NoEntry] ELSE storage
                /\ persisted' = IF removed THEN [persisted EXCEPT ![h] = NoEntry] ELSE persisted
                /\ sessionCredentials' =
                       [sessionCredentials EXCEPT ![h] = DialogReply(removed, reply)]
                /\ Finish(DialogDone([m EXCEPT
                              !.resolves[run.name[r]].submitted = "forget",
                              !.resolves[run.name[r]].storeFailed = ~removed],
                          run.name[r], DialogReply(removed, reply)), hasWindow)

\* lines 224-239, 256-258: encrypt completes and the value is stored, or
\* encrypt or store throws (ok = FALSE) and the error is logged.
EncryptDone(r, ok, hasWindow) ==
    /\ resolves[r].pc = "encrypt"
    /\ UNCHANGED cancelledAuthInfoHashes
    /\ NoDialogAfter(Chain, r) => hasWindow
    /\ \E run \in {Running} : LET
           h == HashOf(r)
           credentials == resolves[r].reply
       IN /\ storage' = IF ok THEN [storage EXCEPT ![h] = Encrypt(Stringify(credentials))]
                         ELSE storage
          /\ persisted' = IF ok THEN [persisted EXCEPT ![h] = credentials] ELSE persisted
          /\ sessionCredentials' =
                 [sessionCredentials EXCEPT ![h] = DialogReply(ok, credentials)]
          /\ Finish(DialogDone([run EXCEPT !.resolves[run.name[r]].storeFailed = ~ok],
                                run.name[r], DialogReply(ok, credentials)), hasWindow)

\* lines 243-246, 256-258: the window replies without credentials.
ReplyCancelled(r, hasWindow) ==
    /\ resolves[r].pc = "prompt"
    /\ UNCHANGED <<storage, persisted>>
    /\ NoDialogAfter(Chain, r) => hasWindow
    /\ \E run \in {Running} : LET
           h == HashOf(r)
       IN /\ cancelledAuthInfoHashes' = cancelledAuthInfoHashes \cup {h}
          /\ sessionCredentials' = [sessionCredentials EXCEPT ![h] = Undefined]
          /\ Finish(DialogDone(Answered(run, h, Undefined), run.name[r], Undefined), hasWindow)

\* lines 42-47: the process starts again; the fields are constructed anew,
\* the application storage is kept.
Restart ==
    /\ Live = {}
    /\ pendingProxyResolves' = [h \in Hashes |-> 0]
    /\ currentDialog' = 0
    /\ cancelledAuthInfoHashes' = {}
    /\ sessionCredentials' = [h \in Hashes |-> NoEntry]
    /\ calls' = [c \in CallIds |-> NewCall]
    /\ resolves' = [r \in CallIds |-> NewResolve]
    /\ UNCHANGED <<storage, persisted>>

Next ==
    \/ \E authInfo \in Challenges, readOk \in BOOLEAN, hasWindow \in BOOLEAN :
          Login(authInfo, readOk, hasWindow)
    \/ \E r \in CallIds, ok \in BOOLEAN, hasWindow \in BOOLEAN : DecryptDone(r, ok, hasWindow)
    \/ \E r \in CallIds, reply \in Credentials, remember \in BOOLEAN, removed \in BOOLEAN,
          hasWindow \in BOOLEAN : ReplyCredentials(r, reply, remember, removed, hasWindow)
    \/ \E r \in CallIds, ok \in BOOLEAN, hasWindow \in BOOLEAN : EncryptDone(r, ok, hasWindow)
    \/ \E r \in CallIds, hasWindow \in BOOLEAN : ReplyCancelled(r, hasWindow)
    \/ Restart

Spec == Init /\ [][Next]_vars

\* What the window and the encryption service owe to the proxy of hash h:
\* a reply to its open prompt, the end of its decrypt or encrypt call.
Completes(h) ==
    \E r \in CallIds :
        /\ calls[r].pc = "wait" /\ HashOf(r) = h
        /\ \E hasWindow \in BOOLEAN :
              \/ \E ok \in BOOLEAN : DecryptDone(r, ok, hasWindow)
              \/ \E reply \in Credentials, remember \in BOOLEAN, removed \in BOOLEAN :
                    ReplyCredentials(r, reply, remember, removed, hasWindow)
              \/ \E ok \in BOOLEAN : EncryptDone(r, ok, hasWindow)
              \/ ReplyCancelled(r, hasWindow)

\* Every open prompt is answered and every decrypt and encrypt call ends.
FairSpec == Spec /\ \A h \in Hashes : WF_vars(Completes(h))

TypeOK ==
    /\ currentDialog \in 0..MaxCalls
    /\ cancelledAuthInfoHashes \subseteq Hashes
    /\ \A h \in Hashes :
          /\ pendingProxyResolves[h] \in 0..MaxCalls
          /\ sessionCredentials[h] \in Credentials \cup {Undefined, NoEntry}
    /\ \A c \in CallIds : calls[c].pc \in {"new", "wait", "done", "failed"}

\* ---------------------------------------------------------------- properties
IsProxyCall(c) == calls[c].pc # "new" /\ calls[c].authInfo.isProxy

\* C1: invocations for a proxy with the same (scheme, host, port) that
\* overlap in time see at most one prompt for it, and all of them end the
\* same way with the same credentials.
C1_SingleFlight ==
    \A c \in CallIds : IsProxyCall(c) =>
        /\ calls[c].seen <= 1
        /\ \A d \in calls[c].overlaps :
              (Returned(c) /\ Returned(d)) =>
                  /\ calls[c].pc = calls[d].pc
                  /\ calls[c].result = calls[d].result

\* Two overlapping invocations returned the credentials of the one prompt.
C1_Witness ==
    \E c \in CallIds : \E d \in calls[c].overlaps :
        /\ calls[c].pc = "done" /\ calls[d].pc = "done"
        /\ calls[d].seen = 1
        /\ calls[c].result \in Credentials
        /\ calls[c].result = calls[d].result

\* A dialog that has left `await previousDialog` and has not returned yet.
Showing(r) == resolves[r].pc \in {"prompt", "encrypt"}

\* C2: at most one prompt is open at any time, whatever the proxies; the
\* dialog of the next request starts only when the one before it settled.
C2_OnePromptAtATime ==
    /\ Cardinality({ r \in CallIds : resolves[r].pc = "prompt" }) <= 1
    /\ Cardinality({ r \in CallIds : Showing(r) }) <= 1
    /\ \A q \in CallIds :
          (resolves[q].pc = "queued" /\ resolves[q].previousDialog # 0) =>
              resolves[resolves[q].previousDialog].pc \in {"queued", "prompt", "encrypt"}

\* A prompt is open while the dialog of another request waits behind it.
C2_Witness ==
    \E r, q \in CallIds :
        /\ resolves[r].pc = "prompt"
        /\ resolves[q].pc = "queued"
        /\ resolves[q].previousDialog = r
        /\ HashOf(q) # HashOf(r)

\* C3: an invocation with attempt 2 returns either no credentials or the
\* reply of a prompt for its proxy that was opened after it arrived; never
\* credentials of the session or the storage without a prompt.
C3_Attempt2AlwaysPrompts ==
    \A c \in CallIds :
        (IsProxyCall(c) /\ calls[c].authInfo.attempt = 2) =>
            /\ calls[c].pc # "failed"
            /\ (calls[c].pc = "done" /\ calls[c].result # Undefined) =>
                  /\ calls[c].seen >= 1
                  /\ calls[c].result = calls[c].answer

\* C4: after the user cancelled the prompt for a proxy, every invocation
\* for that proxy in the same run returns no credentials, and does not fail.
C4_CancelledReturnsNone ==
    \A c \in CallIds :
        (IsProxyCall(c) /\ calls[c].cancelledAtArrival) =>
            /\ calls[c].pc # "failed"
            /\ calls[c].pc = "done" => calls[c].result = Undefined

\* C5: within a run cancelledAuthInfoHashes only grows, and no prompt is
\* opened for a proxy that is in it.
C5_CancelledNeverPrompts ==
    [][ /\ Restart \/ cancelledAuthInfoHashes \subseteq cancelledAuthInfoHashes'
        /\ \A r \in CallIds :
              resolves'[r].pc = "prompt" =>
                  authInfoHash(calls'[r].authInfo) \notin cancelledAuthInfoHashes' ]_vars

\* An invocation that arrived after the cancellation reached the dialog
\* code and returned without a prompt.
C5_Witness ==
    \E c \in CallIds :
        /\ calls[c].cancelledAtArrival
        /\ calls[c].authInfo.attempt = 2
        /\ calls[c].creator
        /\ calls[c].pc = "done"
        /\ calls[c].seen = 0

\* C6 as stated: an invocation with attempt 1 that arrives while the
\* session holds credentials for its proxy returns them, without a prompt.
C6_SessionCredentialsReturned ==
    \A c \in CallIds :
        (IsProxyCall(c) /\ calls[c].authInfo.attempt = 1
            /\ calls[c].sessionAtArrival \in Credentials) =>
            /\ calls[c].seen = 0
            /\ calls[c].pc # "failed"
            /\ calls[c].pc = "done" => calls[c].result = calls[c].sessionAtArrival

\* C6 amended: an invocation with attempt 1 that arrives while the session
\* holds credentials for its proxy, and no resolve for that proxy is
\* pending, returns them, without a prompt.
C6_SessionCredentialsReturnedUnlessJoined ==
    \A c \in CallIds :
        (IsProxyCall(c) /\ calls[c].authInfo.attempt = 1
            /\ calls[c].sessionAtArrival \in Credentials
            /\ calls[c].pendingAtArrival = 0) =>
            /\ calls[c].seen = 0
            /\ calls[c].pc # "failed"
            /\ calls[c].pc = "done" => calls[c].result = calls[c].sessionAtArrival

\* Such an invocation returned the credentials of the session.
C6_Witness ==
    \E c \in CallIds :
        /\ IsProxyCall(c) /\ calls[c].authInfo.attempt = 1
        /\ calls[c].sessionAtArrival \in Credentials
        /\ calls[c].pendingAtArrival = 0
        /\ calls[c].pc = "done"
        /\ calls[c].result = calls[c].sessionAtArrival

\* A challenge arrives in this step: it takes slot c, the first one after
\* the invocations in flight.
Arrives(c) ==
    /\ c = Cardinality(Live) + 1
    /\ calls'[c].pc # "new"

\* C7: a challenge that is not for a proxy returns no credentials at once
\* and leaves the pending resolves, the session credentials, the cancelled
\* hashes, the dialog chain, the storage and the invocations in flight as
\* they are.
C7_NonProxyIgnored ==
    [][ \A c \in CallIds :
          (Arrives(c) /\ ~calls'[c].authInfo.isProxy) =>
              /\ calls'[c].pc = "done"
              /\ calls'[c].result = Undefined
              /\ calls'[c].cbCalls = 0
              /\ UNCHANGED <<sessionCredentials, cancelledAuthInfoHashes, storage>>
              /\ pendingProxyResolves' = Running.pendingProxyResolves
              /\ currentDialog' = Running.currentDialog
              /\ resolves' = Running.resolves
              /\ \A d \in CallIds \ {c} : calls'[d] = Running.calls[d] ]_vars

\* A challenge that is not for a proxy returned while a resolve is pending.
C7_Witness ==
    \E c \in CallIds :
        /\ calls[c].pc = "done"
        /\ ~calls[c].authInfo.isProxy
        /\ \E h \in Hashes : pendingProxyResolves[h] # 0
        /\ \E r \in CallIds : resolves[r].pc = "prompt"

\* C8: when the user cancels the prompt for a proxy, its hash is added to
\* cancelledAuthInfoHashes and the resolve yields no credentials, while the
\* session credentials and the storage stay as they were.
C8_CancelKeepsSession ==
    [][ \A r \in CallIds :
          (resolves[r].pc = "prompt" /\ HashOf(r) \notin cancelledAuthInfoHashes
              /\ HashOf(r) \in cancelledAuthInfoHashes') =>
              /\ resolves'[Names[r]].pc = "settled"
              /\ resolves'[Names[r]].value = Undefined
              /\ sessionCredentials' = sessionCredentials
              /\ storage' = storage ]_vars

\* C9: the callback of a proxy challenge is invoked exactly once, when the
\* invocation returns, with the username and password it returns (or with
\* neither); the callback of any other challenge is never invoked.
C9_CallbackExactlyOnce ==
    \A c \in CallIds :
        /\ (IsProxyCall(c) /\ Returned(c)) =>
              /\ calls[c].cbCalls = 1
              /\ calls[c].cbArgs = CallbackArgs(calls[c].result)
        /\ (IsProxyCall(c) /\ InFlight(c)) => calls[c].cbCalls = 0
        /\ ~IsProxyCall(c) => calls[c].cbCalls = 0

\* The invocation started a resolve that read the stored value of a reply
\* with remember, in a run whose session held nothing for the proxy.
ReadsPersisted(c) ==
    /\ IsProxyCall(c) /\ calls[c].authInfo.attempt = 1
    /\ calls[c].sessionAtArrival = NoEntry
    /\ calls[c].pendingAtArrival = 0
    /\ calls[c].persistedAtArrival \in Credentials
    /\ ~resolves[calls[c].promise].decryptFailed

\* C10: credentials replied with remember are returned, without a prompt,
\* to an invocation with attempt 1 after the process started again,
\* provided decrypt returns what encrypt was given.
C10_RememberedRoundTrip ==
    \A c \in CallIds :
        ReadsPersisted(c) =>
            /\ calls[c].seen = 0
            /\ calls[c].pc # "failed"
            /\ calls[c].pc = "done" => calls[c].result = calls[c].persistedAtArrival

\* Such an invocation returned the remembered credentials.
C10_Witness ==
    \E c \in CallIds :
        /\ ReadsPersisted(c)
        /\ calls[c].pc = "done"
        /\ calls[c].seen = 0
        /\ calls[c].result = calls[c].persistedAtArrival

\* The user submitted credentials in the prompt of promise r, and the
\* invocations awaiting it have returned.
Submitted(r) == resolves[r].pc = "settled" /\ resolves[r].submitted # "none"

\* C11 as stated: when the invocations return the credentials the user
\* submitted, the session holds them for the proxy; with remember the
\* storage holds a value that decrypts to them, without it holds no value.
C11_SubmitUpdatesSessionAndStorage ==
    \A r \in CallIds : Submitted(r) =>
        /\ resolves[r].value \in Credentials
        /\ calls[r].pc = "done" /\ calls[r].result = resolves[r].value
        /\ sessionCredentials[HashOf(r)] = resolves[r].value
        /\ resolves[r].submitted = "remember" =>
              /\ storage[HashOf(r)] # NoEntry
              /\ StoredCredentials(storage[HashOf(r)]) = resolves[r].value
        /\ resolves[r].submitted = "forget" => storage[HashOf(r)] = NoEntry

\* C11 amended: the same, for the storage provided encrypt, store and
\* remove did not throw.
C11_SubmitUpdatesSessionAndStorageUnlessStoreFails ==
    \A r \in CallIds : Submitted(r) =>
        /\ resolves[r].value \in Credentials
        /\ calls[r].pc = "done" /\ calls[r].result = resolves[r].value
        /\ sessionCredentials[HashOf(r)] = resolves[r].value
        /\ (resolves[r].submitted = "remember" /\ ~resolves[r].storeFailed) =>
              /\ storage[HashOf(r)] # NoEntry
              /\ StoredCredentials(storage[HashOf(r)]) = resolves[r].value
        /\ (resolves[r].submitted = "forget" /\ ~resolves[r].storeFailed) =>
              storage[HashOf(r)] = NoEntry

\* Credentials submitted without remember replaced the session entry and
\* removed the value remembered before.
C11_Witness ==
    \E r \in CallIds :
        /\ Submitted(r) /\ resolves[r].submitted = "forget" /\ ~resolves[r].storeFailed
        /\ calls[r].persistedAtArrival \in Credentials
        /\ calls[r].result = resolves[r].value
        /\ sessionCredentials[HashOf(r)] = resolves[r].value
        /\ storage[HashOf(r)] = NoEntry

\* The read of the stored value for promise n failed in this step.
ReadFails(n) ==
    /\ resolves'[n].decryptFailed
    /\ \A r \in CallIds : Names[r] = n => ~resolves[r].decryptFailed

\* C12: when reading, decrypting or parsing the stored value throws, the
\* resolve does not fail and the session credentials stay as they were: it
\* goes on to the dialog, which returns nothing when the proxy was
\* cancelled or no window is there and prompts otherwise; credentials it
\* yields afterwards are the ones the user submitted.
C12_FailedReadDegradesToPrompt ==
    [][ \A n \in CallIds :
          /\ ReadFails(n) =>
                /\ sessionCredentials' = sessionCredentials
                /\ resolves'[n].pc \in {"queued", "prompt", "settled"}
                /\ resolves'[n].pc = "settled" => resolves'[n].value = Undefined
          /\ resolves'[n].decryptFailed =>
                /\ ~resolves'[n].rejected
                /\ resolves'[n].pc \in {"queued", "prompt", "encrypt", "settled"}
                /\ (resolves'[n].pc = "settled" /\ resolves'[n].value # Undefined) =>
                      resolves'[n].submitted # "none"
                /\ \A c \in CallIds :
                      (calls'[c].pc # "new" /\ calls'[c].authInfo.isProxy
                          /\ calls'[c].promise = n) => calls'[c].pc # "failed" ]_vars

\* Decrypt of the value remembered for the proxy failed for an invocation
\* with attempt 1, and the prompt is open.
C12_Witness ==
    \E r \in CallIds :
        /\ resolves[r].decryptFailed
        /\ resolves[r].pc = "prompt"
        /\ calls[r].authInfo.attempt = 1
        /\ calls[r].sessionAtArrival = NoEntry
        /\ calls[r].persistedAtArrival \in Credentials

\* C13: when the dialog of a promise finds no window, the promise yields no
\* credentials and the invocations awaiting it return none in the same
\* task; the hash is not in cancelledAuthInfoHashes, and the session
\* credentials and the stored value of the proxy stay as they were.
C13_NoWindowReturnsNone ==
    [][ \A n \in CallIds : resolves'[n].window = "absent" =>
          LET h == authInfoHash(calls'[n].authInfo)
          IN /\ resolves'[n].pc = "settled"
             /\ resolves'[n].value = Undefined
             /\ \A c \in CallIds :
                   (calls'[c].pc # "new" /\ calls'[c].authInfo.isProxy
                       /\ calls'[c].promise = n) =>
                       calls'[c].pc = "done" /\ calls'[c].result = Undefined
             /\ h \notin cancelledAuthInfoHashes'
             /\ sessionCredentials'[h] = sessionCredentials[h]
             /\ storage'[h] = storage[h] ]_vars

\* An invocation returned nothing because there was no window; its proxy
\* is not cancelled, and the session still holds credentials for it.
C13_Witness ==
    \E r \in CallIds :
        /\ resolves[r].window = "absent"
        /\ calls[r].pc = "done" /\ calls[r].result = Undefined
        /\ calls[r].authInfo.attempt = 2
        /\ HashOf(r) \notin cancelledAuthInfoHashes
        /\ sessionCredentials[HashOf(r)] \in Credentials

\* C14: when encrypt, store or remove threw after the user submitted
\* credentials, the invocations still return the credentials, the session
\* holds them for the proxy, and its hash is not in cancelledAuthInfoHashes.
C14_StoreFailureStillReturns ==
    \A r \in CallIds : (resolves[r].pc = "settled" /\ resolves[r].storeFailed) =>
        /\ resolves[r].value \in Credentials
        /\ \A c \in CallIds :
              (IsProxyCall(c) /\ calls[c].promise = r) =>
                  /\ calls[c].pc = "done"
                  /\ calls[c].result = resolves[r].value
                  /\ calls[c].seen >= 1 => calls[c].answer = calls[c].result
        /\ sessionCredentials[HashOf(r)] = resolves[r].value
        /\ HashOf(r) \notin cancelledAuthInfoHashes

\* Encrypt or store threw for credentials submitted with remember: they
\* were returned, the storage holds nothing for the proxy.
C14_Witness ==
    \E r \in CallIds :
        /\ resolves[r].pc = "settled" /\ resolves[r].storeFailed
        /\ resolves[r].submitted = "remember"
        /\ calls[r].pc = "done" /\ calls[r].result \in Credentials
        /\ calls[r].result = calls[r].answer
        /\ storage[HashOf(r)] = NoEntry

\* Promise r has not settled.
Resolving(r) == resolves[r].pc \notin {"none", "settled"}

\* C15: for every proxy at most one resolve is in flight; it is the one
\* pendingProxyResolves holds for the hash, its creator is in flight, and
\* every invocation in flight for the proxy awaits it (none started
\* another, and no removal took the entry of a resolve in flight).
C15_OnePendingPerHash ==
    /\ \A r, q \in CallIds :
          (Resolving(r) /\ Resolving(q) /\ HashOf(r) = HashOf(q)) => r = q
    /\ \A r \in CallIds :
          Resolving(r) =>
              /\ pendingProxyResolves[HashOf(r)] = r
              /\ InFlight(r) /\ calls[r].creator /\ calls[r].promise = r
    /\ \A h \in Hashes :
          pendingProxyResolves[h] # 0 =>
              Resolving(pendingProxyResolves[h]) /\ HashOf(pendingProxyResolves[h]) = h
    /\ \A c \in CallIds :
          InFlight(c) =>
              /\ calls[c].promise = pendingProxyResolves[HashOf(c)]
              /\ calls[c].creator <=> calls[c].promise = c

\* A second invocation for a proxy awaits the resolve the first one
\* started, whose prompt is open.
C15_Witness ==
    \E c, d \in CallIds :
        /\ c # d
        /\ InFlight(c) /\ InFlight(d)
        /\ HashOf(c) = HashOf(d)
        /\ calls[c].creator /\ ~calls[d].creator /\ calls[d].promise = c
        /\ pendingProxyResolves[HashOf(c)] = c
        /\ resolves[c].pc = "prompt" /\ ~Resolving(d)

\* C16: when a resolve has settled, with credentials, with none or with an
\* error, pendingProxyResolves has no entry for its hash, and had none when
\* each invocation awaiting it received the result; an entry exists only
\* while an invocation for the hash is in flight.
C16_EntryRemovedOnCompletion ==
    /\ \A r \in CallIds :
          resolves[r].pc = "settled" => pendingProxyResolves[HashOf(r)] = 0
    /\ \A c \in CallIds :
          (IsProxyCall(c) /\ Returned(c)) => calls[c].pendingAtReturn = 0
    /\ \A h \in Hashes :
          pendingProxyResolves[h] # 0 => \E c \in CallIds : InFlight(c) /\ HashOf(c) = h

\* An invocation that joined a resolve has received its result; the entry
\* of the hash was gone by then.
C16_Witness ==
    \E c, d \in CallIds :
        /\ IsProxyCall(c) /\ IsProxyCall(d)
        /\ calls[c].creator /\ ~calls[d].creator /\ calls[d].promise = c
        /\ calls[c].pc = "done" /\ calls[d].pc = "done"
        /\ resolves[c].pc = "settled"
        /\ pendingProxyResolves[HashOf(d)] = 0
        /\ calls[d].pendingAtReturn = 0

\* The dialogs chained before the dialog of promise q, which awaits its
\* previousDialog.
RECURSIVE AheadOf(_)
AheadOf(q) ==
    IF resolves[q].previousDialog = 0 THEN {}
    ELSE {resolves[q].previousDialog} \cup AheadOf(resolves[q].previousDialog)

\* The dialogs that were chained before the one of the promise named n
\* after this step: the ones it awaited, or for a dialog chained in this
\* step all that had not returned.
EarlierThan(n) ==
    IF \E q \in CallIds : Names[q] = n /\ resolves[q].pc = "queued"
    THEN AheadOf(CHOOSE q \in CallIds : Names[q] = n /\ resolves[q].pc = "queued")
    ELSE { r \in CallIds : resolves[r].pc \in {"queued", "prompt", "encrypt"} }

\* The prompt of the promise named n after this step opens in this step.
Opens(n) ==
    /\ resolves'[n].pc = "prompt"
    /\ \A q \in CallIds : Names[q] = n => resolves[q].pc \notin {"prompt", "encrypt"}

C18_CancelledNeverChained ==
    \A r \in CallIds :
        resolves[r].pc = "queued" => HashOf(r) \notin cancelledAuthInfoHashes

\* C19: every invocation in flight awaits the entry of its hash, every
\* entry is eventually removed, which is when the invocations awaiting it
\* return, and when no invocation is in flight no entry is left and
\* currentDialog is reset.
C19_EveryCallReturns ==
    /\ [](\A c \in CallIds :
            InFlight(c) => /\ calls[c].promise # 0
                           /\ pendingProxyResolves[HashOf(c)] = calls[c].promise)
    /\ []((Live = {}) => /\ \A h \in Hashes : pendingProxyResolves[h] = 0
                         /\ currentDialog = 0)
    /\ \A h \in Hashes :
          (pendingProxyResolves[h] # 0) ~> (pendingProxyResolves[h] = 0)

\* Two invocations for different proxies returned in one task: the dialog of
\* the second was chained behind the prompt of the first and found no
\* window; nothing is in flight and the chain is reset.
C19_Witness ==
    \E c, d \in CallIds :
        /\ HashOf(c) # HashOf(d)
        /\ Returned(c) /\ Returned(d)
        /\ calls[c].seen = 1
        /\ resolves[d].window = "absent"
        /\ Live = {}
        /\ currentDialog = 0
        /\ \A h \in Hashes : pendingProxyResolves[h] = 0

\* Credentials x were held for hash h before this step: in
\* sessionCredentials, in the storage, in the resolve of h (read from the
\* storage, shown as prefill, replied, returned) or in the result of an
\* invocation for h.
WasHeld(x, h) ==
    \/ x = sessionCredentials[h]
    \/ storage[h] # NoEntry /\ x = StoredCredentials(storage[h])
    \/ \E r \in CallIds :
          /\ resolves[r].pc # "none"
          /\ HashOf(r) = h
          /\ \/ x \in {resolves[r].stored, resolves[r].prefill,
                       resolves[r].reply, resolves[r].value}
             \/ /\ resolves[r].encryptedValue # NoEntry
                /\ x = StoredCredentials(resolves[r].encryptedValue)
    \/ \E c \in CallIds :
          /\ calls[c].pc \in {"wait", "done"}
          /\ HashOf(c) = h
          /\ x = calls[c].result

\* Credentials x are the reply to the prompt of h that the invocations for
\* h have after this step.
Replied(x, h) ==
    \E c \in CallIds :
        /\ calls'[c].pc \in {"wait", "done"}
        /\ authInfoHash(calls'[c].authInfo) = h
        /\ x = calls'[c].answer

FromOwnHash(x, h) == x \in Credentials => (WasHeld(x, h) \/ Replied(x, h))

\* C20: whatever credentials are held for a hash after a step (in
\* sessionCredentials, in the storage, in its resolve, as a result) were
\* held for that hash before it or are the reply to a prompt opened for it;
\* nothing held for another hash gets there.
C20_NoLeakAcrossHashes ==
    [][ \A h \in Hashes :
          /\ FromOwnHash(sessionCredentials'[h], h)
          /\ storage'[h] # NoEntry => FromOwnHash(StoredCredentials(storage'[h]), h)
          /\ \A r \in CallIds :
                (resolves'[r].pc # "none" /\ authInfoHash(calls'[r].authInfo) = h) =>
                    /\ FromOwnHash(resolves'[r].stored, h)
                    /\ FromOwnHash(resolves'[r].prefill, h)
                    /\ FromOwnHash(resolves'[r].reply, h)
                    /\ FromOwnHash(resolves'[r].value, h)
                    /\ resolves'[r].encryptedValue # NoEntry =>
                          FromOwnHash(StoredCredentials(resolves'[r].encryptedValue), h)
          /\ \A c \in CallIds :
                (calls'[c].pc \in {"wait", "done"}
                    /\ authInfoHash(calls'[c].authInfo) = h) =>
                    FromOwnHash(calls'[c].result, h) ]_vars

\* The prompt of one proxy opens without prefill right after the user has
\* submitted credentials to the prompt of the other proxy, behind which it
\* was chained.
C20_Witness ==
    \E q, c \in CallIds :
        /\ resolves[q].pc = "prompt" /\ InFlight(q)
        /\ resolves[q].prefill \notin Credentials
        /\ HashOf(c) # HashOf(q)
        /\ calls[c].pc = "done" /\ calls[c].seen = 1
        /\ calls[c].result \in Credentials
        /\ sessionCredentials[HashOf(c)] = calls[c].result
        /\ sessionCredentials[HashOf(q)] \notin Credentials
        /\ storage[HashOf(q)] = NoEntry
====
